---- MODULE Spec2Model ----
(***************************************************************************)
(* Model of qiime/tree_compare.py: bootstrap/jackknife support of the      *)
(* internal nodes of a master tree, computed from a list of support trees. *)
(*                                                                         *)
(* A tree (a PhyloNode and everything below it) is a sequence of node      *)
(* records listed in preorder: node 1 is the root, parent is the index of  *)
(* the parent (0 for the root), the children of a node are the nodes that  *)
(* name it as parent, in index order.  A node without children is a tip.   *)
(* A Python value that may be None is a sequence of length 0 (None) or 1.  *)
(* A number is a reduced fraction <<numerator, denominator>>.              *)
(***************************************************************************)
EXTENDS Integers, Sequences, FiniteSets, TLC

\* ---------------------------------------------------------------- bounds
\* most nodes of a tree that main parses (master or support tree)
MaxNodes == 3
\* most nodes of a master tree handed to setup_master_tree directly
MaxSetupNodes == 4
\* most files in the support directory
MaxTrees == 2

\* ---------------------------------------------------------------- values
None == <<>>

Str(s) == <<s>>

\* tip names that occur in the trees
TipNames == {Str("A"), Str("B")}

\* the Name of an internal node of a master tree as parsed
MasterInternalNames == {None, Str("A"), Str("node0")}

\* the Name of an internal node of a master tree handed to setup_master_tree
SetupInternalNames == {None, Str(""), Str("A"), Str("node0")}

\* the Name of an internal node of a support tree as parsed
SupportInternalNames == {None}

RECURSIVE Gcd(_, _)
Gcd(a, b) == IF b = 0 THEN a ELSE Gcd(b, a % b)

\* the number num/den, den > 0
Number(num, den) == <<num \div Gcd(num, den), den \div Gcd(num, den)>>

Whole(n) == <<n, 1>>

\* a + b
Plus(a, b) == Number(a[1] * b[2] + b[1] * a[2], a[2] * b[2])

\* a / n under "from __future__ import division", n # 0
TrueDiv(a, n) == Number(a[1], a[2] * n)

Digits == <<"0", "1", "2", "3", "4", "5", "6", "7", "8", "9">>

\* str(i) of a non-negative int
RECURSIVE str(_)
str(i) == IF i < 10 THEN Digits[i + 1] ELSE str(i \div 10) \o Digits[(i % 10) + 1]

\* set(list)
set(list) == { list[x] : x \in DOMAIN list }

\* ------------------------------------------------------------ tree model
RECURSIVE IsAncestorOrSelf(_, _, _)
IsAncestorOrSelf(t, a, j) ==
    IF j = a THEN TRUE
    ELSE IF j < a THEN FALSE
    ELSE IsAncestorOrSelf(t, a, t[j].parent)

Children(t, i) == { j \in DOMAIN t : t[j].parent = i }

\* node.traverse() on the root: the nodes in preorder
traverse(t) == [i \in 1..Len(t) |-> i]

\* node.iterNontips(include_self=True) on the root: preorder, nodes with Children
iterNontips(t) == SelectSeq(traverse(t), LAMBDA i : Children(t, i) # {})

\* node.getTipNames(): names of the tips at or below node i, in traversal order
getTipNames(t, i) ==
    LET tips == SelectSeq(traverse(t),
                          LAMBDA j : Children(t, j) = {} /\ IsAncestorOrSelf(t, i, j))
    IN  [x \in 1..Len(tips) |-> t[tips[x]].Name]

\* node.getNodeNames() on the root: the names of all nodes, in preorder
getNodeNames(t) == [i \in 1..Len(t) |-> t[i].Name]

\* ------------------------------------------------------- the input trees
\* parent vectors of the rooted ordered trees with n nodes, in preorder
ParentVectors(n) ==
    { par \in [1..n -> 0..(n - 1)] :
        /\ par[1] = 0
        /\ \A i \in 2..n :
            /\ par[i] >= 1
            /\ par[i] < i
            /\ IsAncestorOrSelf([j \in 1..n |-> [parent |-> par[j]]], par[i], i - 1) }

Shapes(most) == UNION { ParentVectors(n) : n \in 1..most }

\* DndParser(f, PhyloNode): the trees with tips named from tips and internal
\* nodes named from internals; no node has a bootstrap_support attribute yet
ParsedTrees(most, tips, internals) ==
    UNION { { [i \in DOMAIN par |->
                [parent |-> par[i], Name |-> nm[i], bootstrap_support |-> None]] :
              nm \in { f \in [DOMAIN par -> tips \cup internals] :
                        \A i \in DOMAIN par :
                            IF \E j \in DOMAIN par : par[j] = i
                            THEN f[i] \in internals ELSE f[i] \in tips } } :
            par \in Shapes(most) }

MasterTrees == ParsedTrees(MaxNodes, TipNames, MasterInternalNames)

SetupTrees == ParsedTrees(MaxSetupNodes, TipNames, SetupInternalNames)

\* the support trees: no two tips of a support tree have the same name
SupportTrees ==
    { t \in ParsedTrees(MaxNodes, TipNames, SupportInternalNames) :
        \A i, j \in DOMAIN t :
            (Children(t, i) = {} /\ Children(t, j) = {} /\ t[i].Name = t[j].Name) => i = j }

\* ---------------------------------------------------------------- errors
\* an exception: its class and its args, each arg tagged with its Python type
ValueError(msg) == [type |-> "ValueError", args |-> <<[kind |-> "str", val |-> msg]>>]

ZeroDivisionError ==
    [type |-> "ZeroDivisionError", args |-> <<[kind |-> "str", val |-> "float division"]>>]

NonUniqueMsg == "can't setup tree, nonunique node names"

MismatchMsg == "different number of tips in subsampled_tree and master.\ntypically some sapmples with few sequences were skipped in the support trees.  remove offending samples from the master tree, and try again"

\* ------------------------------------------------------ setup_master_tree
\* setup_master_tree with "i += 1" moved out of the if: the counter advances
\* on every internal node
RECURSIVE SetupLoopCountsEveryNode(_, _, _)
SetupLoopCountsEveryNode(m, nodes, i) ==
    IF nodes = <<>> THEN m
    ELSE LET node == Head(nodes)
             m1 == [m EXCEPT ![node].bootstrap_support = Whole(0)]
         IN  IF m[node].Name = None \/ m[node].Name = Str("")
             THEN SetupLoopCountsEveryNode(
                    [m1 EXCEPT ![node].Name = Str("node" \o str(i))], Tail(nodes), i + 1)
             ELSE SetupLoopCountsEveryNode(m1, Tail(nodes), i + 1)

\* the loop of setup_master_tree over the nodes still to visit, counter i
RECURSIVE SetupLoop(_, _, _)
SetupLoop(m, nodes, i) ==
    IF nodes = <<>> THEN m
    ELSE LET node == Head(nodes)
             m1 == [m EXCEPT ![node].bootstrap_support = Whole(0)]
         IN  IF m[node].Name = None \/ m[node].Name = Str("")
             THEN SetupLoop([m1 EXCEPT ![node].Name = Str("node" \o str(i))],
                            Tail(nodes), i + 1)
             ELSE SetupLoop(m1, Tail(nodes), i)

\* the master tree as setup_master_tree leaves it (also when it raises)
setup_master_tree(m) == SetupLoop(m, iterNontips(m), 0)

\* setup_master_tree testing the names of the non-tip nodes only
SetupRaisesInternalOnly(m) ==
    LET nodes == iterNontips(m)
    IN  Cardinality({ m[nodes[x]].Name : x \in DOMAIN nodes }) # Len(nodes)

\* the test of the raise of setup_master_tree, on the tree after the loop
SetupRaises(m) == Cardinality(set(getNodeNames(m))) # Len(getNodeNames(m))

\* ---------------------------------------------------------------- compare
\* compare testing the number of tips, as its message says, not their names
CompareRaisesOnCount(m, t) == Len(getTipNames(m, 1)) # Len(getTipNames(t, 1))

\* the test of the raise of compare
CompareRaises(m, t) == set(getTipNames(m, 1)) # set(getTipNames(t, 1))

\* list of lists: the tip names of each non-tip node of the support tree
subsampled_tree_nodes_names(t) ==
    LET nodes == iterNontips(t)
    IN  [x \in 1..Len(nodes) |-> getTipNames(t, nodes[x])]

\* compare without the set(): the lists of tip names are compared in order
CompareNodeOrdered(m, t, node) ==
    IF \E x \in DOMAIN subsampled_tree_nodes_names(t) :
            subsampled_tree_nodes_names(t)[x] = getTipNames(m, node)
    THEN Plus(m[node].bootstrap_support, Whole(1))
    ELSE m[node].bootstrap_support

\* compare adding one for every node of the support tree that matches
CompareNodePerMatch(m, t, node) ==
    Plus(m[node].bootstrap_support,
         Whole(Cardinality({ x \in DOMAIN subsampled_tree_nodes_names(t) :
                    set(subsampled_tree_nodes_names(t)[x]) = set(getTipNames(m, node)) })))

\* compare counting the current run of supporting trees: no match resets
CompareNodeStreak(m, t, node) ==
    IF \E x \in DOMAIN subsampled_tree_nodes_names(t) :
            set(subsampled_tree_nodes_names(t)[x]) = set(getTipNames(m, node))
    THEN Plus(m[node].bootstrap_support, Whole(1))
    ELSE Whole(0)

\* the new value of master_node.bootstrap_support in the loop of compare
CompareNode(m, t, node) ==
    LET sets == [x \in DOMAIN subsampled_tree_nodes_names(t) |->
                    set(subsampled_tree_nodes_names(t)[x])]
    IN  IF \E x \in DOMAIN sets : sets[x] = set(getTipNames(m, node))
        THEN Plus(m[node].bootstrap_support, Whole(1))
        ELSE m[node].bootstrap_support

\* the master tree after the loop of compare (no raise)
compare(m, t) ==
    [node \in DOMAIN m |->
        IF Children(m, node) # {}
        THEN [m[node] EXCEPT !.bootstrap_support = CompareNode(m, t, node)]
        ELSE m[node]]

\* ------------------------------------------------------ bootstrap_support
\* the division raises: there is a non-tip node and num_trees is 0
NormalizeRaises(m, num_trees) == iterNontips(m) # <<>> /\ num_trees = 0

\* the master tree after the final loop of bootstrap_support (no raise)
Normalize(m, num_trees) ==
    [node \in DOMAIN m |->
        IF Children(m, node) # {}
        THEN [m[node] EXCEPT !.bootstrap_support = TrueDiv(@, num_trees)]
        ELSE m[node]]

\* the dict bootstrap_supports of a master tree after the final loop: a later
\* node overwrites the entry of an earlier node of the same name
SupportsDict(m) ==
    LET nodes == iterNontips(m)
        keys == { m[nodes[x]].Name : x \in DOMAIN nodes }
        last(key) == CHOOSE x \in DOMAIN nodes :
                        /\ m[nodes[x]].Name = key
                        /\ \A y \in DOMAIN nodes : m[nodes[y]].Name = key => y <= x
    IN  [key \in keys |-> m[nodes[last(key)]].bootstrap_support]

\* ------------------------------------------------------------------ state
VARIABLES
    pc,             \* where main is
    output_dir,     \* os.path.exists(options.output_dir)
    pending,        \* files of tree_file_names not yet parsed
    support_trees,  \* main's list support_trees = bootstrap_support's trees
    master_tree,    \* the master tree object (None before it is parsed)
    compared,       \* calls of compare made by bootstrap_support
    bootstraps,     \* the dict bootstrap_support returned (None before)
    err,            \* the exception that ended the run (None if none)
    files           \* output files opened for writing

vars == <<pc, output_dir, pending, support_trees, master_tree, compared,
          bootstraps, err, files>>

Init ==
    /\ pc = "listdir"
    /\ output_dir \in BOOLEAN
    /\ pending = 0
    /\ support_trees = <<>>
    /\ master_tree = None
    /\ compared = 0
    /\ bootstraps = None
    /\ err = None
    /\ files = {}

\* main: os.listdir without the hidden files, and the mkdir of output_dir
ListDir ==
    /\ pc = "listdir"
    /\ \E n \in 0..MaxTrees : pending' = n
    /\ output_dir' = TRUE
    /\ pc' = "parse"
    /\ UNCHANGED <<support_trees, master_tree, compared, bootstraps, err, files>>

\* main: one turn of the loop that parses the support trees
ParseSupportTree ==
    /\ pc = "parse"
    /\ pending > 0
    /\ \E t \in SupportTrees : support_trees' = Append(support_trees, t)
    /\ pending' = pending - 1
    /\ UNCHANGED <<pc, output_dir, master_tree, compared, bootstraps, err, files>>

\* main: the master tree is parsed and bootstrap_support is called
ParseMaster ==
    /\ pc = "parse"
    /\ pending = 0
    /\ \E m \in MasterTrees : master_tree' = m
    /\ pc' = "setup"
    /\ UNCHANGED <<output_dir, pending, support_trees, compared, bootstraps, err, files>>

\* bootstrap_support: setup_master_tree(master_tree)
Setup ==
    /\ pc = "setup"
    /\ master_tree' = setup_master_tree(master_tree)
    /\ IF SetupRaises(master_tree')
       THEN pc' = "raised" /\ err' = ValueError(NonUniqueMsg)
       ELSE pc' = "compare" /\ err' = err
    /\ UNCHANGED <<output_dir, pending, support_trees, compared, bootstraps, files>>

\* bootstrap_support catching the error of compare and going on to the next tree
CompareSkipsMismatch ==
    /\ pc = "compare"
    /\ compared < Len(support_trees)
    /\ compared' = compared + 1
    /\ LET sub_tree == support_trees[compared + 1]
       IN  IF CompareRaises(master_tree, sub_tree)
           THEN master_tree' = master_tree
           ELSE master_tree' = compare(master_tree, sub_tree)
    /\ UNCHANGED <<pc, err, output_dir, pending, support_trees, bootstraps, files>>

\* bootstrap_support: one turn of the loop, compare(master_tree, sub_tree)
Compare ==
    /\ pc = "compare"
    /\ compared < Len(support_trees)
    /\ compared' = compared + 1
    /\ LET sub_tree == support_trees[compared + 1]
       IN  IF CompareRaises(master_tree, sub_tree)
           THEN /\ pc' = "raised"
                /\ err' = ValueError(MismatchMsg)
                /\ master_tree' = master_tree
           ELSE /\ pc' = pc
                /\ err' = err
                /\ master_tree' = compare(master_tree, sub_tree)
    /\ UNCHANGED <<output_dir, pending, support_trees, bootstraps, files>>

\* bootstrap_support: the final loop and the return
Return ==
    /\ pc = "compare"
    /\ compared = Len(support_trees)
    /\ IF NormalizeRaises(master_tree, Len(support_trees))
       THEN /\ pc' = "raised"
            /\ err' = ZeroDivisionError
            /\ UNCHANGED <<master_tree, bootstraps>>
       ELSE /\ pc' = "write_master"
            /\ err' = err
            /\ master_tree' = Normalize(master_tree, Len(support_trees))
            /\ bootstraps' = Str(SupportsDict(master_tree'))
    /\ UNCHANGED <<output_dir, pending, support_trees, compared, files>>

\* main: master_tree.tre is opened for writing, written and closed
WriteMaster ==
    /\ pc = "write_master"
    /\ files' = files \cup {"master_tree.tre"}
    /\ pc' = "write_support"
    /\ UNCHANGED <<output_dir, pending, support_trees, master_tree, compared,
                   bootstraps, err>>

\* main: jackknife_support.txt is opened for writing, written and closed
WriteSupport ==
    /\ pc = "write_support"
    /\ files' = files \cup {"jackknife_support.txt"}
    /\ pc' = "done"
    /\ UNCHANGED <<output_dir, pending, support_trees, master_tree, compared,
                   bootstraps, err>>

Next ==
    \/ ListDir
    \/ ParseSupportTree
    \/ ParseMaster
    \/ Setup
    \/ Compare
    \/ Return
    \/ WriteMaster
    \/ WriteSupport

Spec == Init /\ [][Next]_vars

\* bootstrap_support: the loop over trees, from the x-th tree on
RECURSIVE CompareAll(_, _, _)
CompareAll(m, trees, x) ==
    IF x > Len(trees) THEN [err |-> None, master |-> m]
    ELSE IF CompareRaises(m, trees[x])
         THEN [err |-> Str(ValueError(MismatchMsg)), master |-> m]
         ELSE CompareAll(compare(m, trees[x]), trees, x + 1)

\* bootstrap_support(master_tree, trees) as a function of its arguments: the
\* exception it raises (None if it returns), the master tree it leaves and
\* the dict it returns (None if it raises)
bootstrap_support(m, trees) ==
    LET m1 == setup_master_tree(m)
        r  == CompareAll(m1, trees, 1)
    IN  IF SetupRaises(m1)
        THEN [err |-> Str(ValueError(NonUniqueMsg)), master |-> m1, supports |-> None]
        ELSE IF r.err # None
        THEN [err |-> r.err, master |-> r.master, supports |-> None]
        ELSE IF NormalizeRaises(r.master, Len(trees))
        THEN [err |-> Str(ZeroDivisionError), master |-> r.master, supports |-> None]
        ELSE [err |-> None,
              master |-> Normalize(r.master, Len(trees)),
              supports |-> Str(SupportsDict(Normalize(r.master, Len(trees))))]

\* a direct call of setup_master_tree on a master tree
InitSetup ==
    /\ pc = "setup"
    /\ output_dir = TRUE
    /\ pending = 0
    /\ support_trees = <<>>
    /\ master_tree \in SetupTrees
    /\ compared = 0
    /\ bootstraps = None
    /\ err = None
    /\ files = {}

SpecSetup == InitSetup /\ [][Setup]_vars

\* ---------------------------------------------------- terms of the claims
\* the non-tip (internal) nodes of a tree, the root included if it has children
InternalNodes(t) == { i \in DOMAIN t : \E j \in DOMAIN t : t[j].parent = i }

\* the set of the labels of the tips at or below node i
Clade(t, i) ==
    { t[j].Name : j \in { l \in DOMAIN t : l \notin InternalNodes(t)
                                          /\ IsAncestorOrSelf(t, i, l) } }

\* the leaf-label set of a tree
LeafSet(t) == Clade(t, 1)

\* the support tree has an internal node with that clade
HasClade(t, clade) == \E j \in InternalNodes(t) : Clade(t, j) = clade

\* bootstrap_support has returned to main
Returned == pc \in {"write_master", "write_support", "done"}

\* every support tree has the leaf-label set of the master tree
SameLeafSets(m, trees) == \A x \in DOMAIN trees : LeafSet(trees[x]) = LeafSet(m)

GeneratedNames ==
    <<"node0", "node1", "node2", "node3", "node4", "node5", "node6", "node7", "node8">>

\* the exception carries the set S of labels
Carries(e, S) == \E x \in DOMAIN e.args : e.args[x].kind = "set" /\ e.args[x].val = S

\* the lists that are trees in another order
Reorderings(trees) ==
    { [x \in DOMAIN trees |-> trees[f[x]]] :
        f \in { g \in [DOMAIN trees -> DOMAIN trees] :
                    \A x, y \in DOMAIN trees : g[x] = g[y] => x = y } }

C2_MismatchRaisesBeforeAnyIncrement ==
    [][ (pc = "compare" /\ compared' = compared + 1) =>
            /\ (LeafSet(support_trees[compared + 1]) # LeafSet(master_tree))
                <=> (pc' = "raised" /\ err' = ValueError(MismatchMsg))
            /\ (pc' = "raised") => (master_tree' = master_tree) ]_vars

\* the second support tree mismatches after the first one was counted
C2_Witness ==
    /\ pc = "raised"
    /\ err = ValueError(MismatchMsg)
    /\ compared = 2
    /\ LeafSet(support_trees[2]) # LeafSet(master_tree)
    /\ \E i \in InternalNodes(master_tree) : master_tree[i].bootstrap_support = <<1, 1>>

\* C3: setup_master_tree raises the non-unique-name error if and only if two
\* nodes of the master tree share a label after the generated names are
\* assigned; when it raises, compare was never called and no dict is returned.
C3_NonUniqueIffSharedLabel ==
    (pc \notin {"listdir", "parse", "setup"}) =>
        /\ (err = ValueError(NonUniqueMsg))
            <=> (\E i, j \in DOMAIN master_tree :
                    i # j /\ master_tree[i].Name = master_tree[j].Name)
        /\ (err = ValueError(NonUniqueMsg)) =>
                (pc = "raised" /\ compared = 0 /\ bootstraps = None)

\* a node that was parsed as "node0" next to a node that was given the name
\* "node0", with a support tree waiting
C3_Witness ==
    /\ pc = "raised"
    /\ err = ValueError(NonUniqueMsg)
    /\ Len(support_trees) >= 1
    /\ compared = 0
    /\ \E i, j \in InternalNodes(master_tree) :
        /\ i # j
        /\ master_tree[i].Name = Str("node0")
        /\ master_tree[j].Name = Str("node0")

\* C4: with zero support trees bootstrap_support never returns a dict.
C4_EmptyInputFails ==
    (pc \notin {"listdir", "parse"} /\ Len(support_trees) = 0) => bootstraps = None

\* C5: after bootstrap_support returns for N >= 1 support trees that share
\* the master's leaf-label set L, every master internal node whose clade is L
\* has support 1.
C5_FullCladeHasSupportOne ==
    (Returned /\ Len(support_trees) >= 1 /\ SameLeafSets(master_tree, support_trees)) =>
        \A i \in InternalNodes(master_tree) :
            Clade(master_tree, i) = LeafSet(master_tree)
                => bootstraps[1][master_tree[i].Name] = <<1, 1>>

\* C6: setup_master_tree gives the k-th internal node (in traversal order,
\* counted from 0 over the internal nodes without a label or with an empty
\* one) the label "node" followed by k, and leaves the label of every other
\* node, internal or tip, as it was.
C6_GeneratedNamesInTraversalOrder ==
    [][ (pc = "setup" /\ pc' # "setup") =>
            LET unnamed(i) == /\ i \in InternalNodes(master_tree)
                              /\ master_tree[i].Name \in {None, Str("")}
                k(i) == Cardinality({ j \in DOMAIN master_tree : j < i /\ unnamed(j) })
            IN  /\ DOMAIN master_tree' = DOMAIN master_tree
                /\ \A i \in DOMAIN master_tree :
                    /\ master_tree'[i].parent = master_tree[i].parent
                    /\ master_tree'[i].Name =
                        IF unnamed(i) THEN Str(GeneratedNames[k(i) + 1])
                        ELSE master_tree[i].Name ]_vars

\* a chain of three internal nodes: the first and the third were named by
\* setup_master_tree, the second kept the label "A"
C6_Witness ==
    /\ pc = "compare"
    /\ getNodeNames(master_tree) = <<Str("node0"), Str("A"), Str("node1"), Str("B")>>
    /\ master_tree[4].parent = 3
    /\ master_tree[3].parent = 2

\* C7: the error compare raises on a leaf-set mismatch carries the labels
\* that only the master has and the labels that only the support tree has.
C7_MismatchErrorCarriesDifferences ==
    (pc = "raised" /\ err = ValueError(MismatchMsg)) =>
        LET t == support_trees[compared]
        IN  /\ Carries(err, LeafSet(master_tree) \ LeafSet(t))
            /\ Carries(err, LeafSet(t) \ LeafSet(master_tree))

\* C8: a run in which setup_master_tree, a call of compare or the final loop
\* raised has opened no output file; an output file is opened only after
\* bootstrap_support has returned for all the support trees; and a support
\* tree with another leaf-label set ends the run where it is compared.
C8_NoOutputAfterError ==
    /\ (err # None) <=> (pc = "raised")
    /\ (pc = "raised") => (files = {})
    /\ (files # {}) => (bootstraps # None /\ compared = Len(support_trees))
    /\ (master_tree # None) =>
        \A x \in 1..compared :
            LeafSet(support_trees[x]) # LeafSet(master_tree)
                => (x = compared /\ pc = "raised")

\* the first of two support trees mismatches: the second is never compared
\* and nothing is written
C8_Witness ==
    /\ pc = "raised"
    /\ err = ValueError(MismatchMsg)
    /\ Len(support_trees) = 2
    /\ compared = 1
    /\ LeafSet(support_trees[2]) = LeafSet(master_tree)
    /\ output_dir
    /\ files = {}

\* C9: every accumulator is 0 after setup_master_tree, a call of compare adds
\* 0 or 1 to it, so after k calls it is between 0 and k, and every final
\* support is between 0 and 1.
C9_Accumulators ==
    /\ [](/\ (pc \in {"compare", "raised"}) =>
                \A i \in InternalNodes(master_tree) :
                    /\ master_tree[i].bootstrap_support[2] = 1
                    /\ 0 <= master_tree[i].bootstrap_support[1]
                    /\ master_tree[i].bootstrap_support[1] <= compared
                    /\ (compared = 0 => master_tree[i].bootstrap_support = <<0, 1>>)
          /\ Returned =>
                \A i \in InternalNodes(master_tree) :
                    /\ 0 <= master_tree[i].bootstrap_support[1]
                    /\ master_tree[i].bootstrap_support[1]
                        <= master_tree[i].bootstrap_support[2]
                    /\ bootstraps[1][master_tree[i].Name] = master_tree[i].bootstrap_support)
    /\ [][ (pc = "compare" /\ compared' = compared + 1) =>
                \A i \in InternalNodes(master_tree) :
                    /\ master_tree'[i].bootstrap_support[2] = 1
                    /\ master_tree'[i].bootstrap_support[1]
                        - master_tree[i].bootstrap_support[1] \in {0, 1} ]_vars

\* one support tree with two internal nodes of the same clade was compared,
\* and the master node of that clade was counted once
C9_Witness ==
    /\ pc = "compare"
    /\ compared = 1
    /\ \E j, l \in InternalNodes(support_trees[1]) :
        /\ j # l
        /\ Clade(support_trees[1], j) = Clade(support_trees[1], l)
        /\ \E i \in InternalNodes(master_tree) :
            /\ Clade(master_tree, i) = Clade(support_trees[1], j)
            /\ master_tree[i].bootstrap_support = <<1, 1>>

\* C10: for support trees that share the master's leaf-label set, the names
\* bootstrap_support assigns and the dict it returns are the same for every
\* order of the list of support trees.
C10_OrderOfTreesIrrelevant ==
    (pc = "setup" /\ SameLeafSets(master_tree, support_trees)) =>
        \A other \in Reorderings(support_trees) :
            /\ bootstrap_support(master_tree, other).supports
                = bootstrap_support(master_tree, support_trees).supports
            /\ getNodeNames(bootstrap_support(master_tree, other).master)
                = getNodeNames(bootstrap_support(master_tree, support_trees).master)

\* two different support trees, one of which supports a master node the
\* other does not
C10_Witness ==
    /\ pc = "setup"
    /\ Len(support_trees) = 2
    /\ SameLeafSets(master_tree, support_trees)
    /\ bootstrap_support(master_tree, support_trees).supports # None
    /\ \E i \in InternalNodes(master_tree) :
        /\ HasClade(support_trees[1], Clade(master_tree, i))
        /\ ~HasClade(support_trees[2], Clade(master_tree, i))

====
